---------------------------- MODULE Spec2Model ----------------------------
(***************************************************************************)
(* Model of the university data repository                                 *)
(* (Student_Repository_Malav_Shah_11.py): the file_reader generator, the   *)
(* Major / Student / Instructor classes and the load-then-report sequence  *)
(* of Repository.__init__.                                                 *)
(*                                                                         *)
(* A file is the sequence of rows csv.reader produces from it, one row per *)
(* line, each row the tuple of the line's fields (an empty line is the     *)
(* empty row).  Course codes are naturals, ordered as the codes sort.      *)
(* A Python set turned into a list has no specified order: such lists are  *)
(* kept as sets until sorted() is applied to them.                         *)
(*                                                                         *)
(* Three specifications share the definitions:                             *)
(*   SpecReader  one run of file_reader over an arbitrary file             *)
(*   SpecMajor   one Major and one Student of it, methods called freely    *)
(*   Spec        Repository.__init__: four load phases, then the reports   *)
(***************************************************************************)
EXTENDS Integers, Sequences, FiniteSets, TLC

\* ------------------------------------------------------------------ bounds
\* lines read from one file by SpecReader
MaxFileLines == 3
\* longest row (fields per line) offered to file_reader by SpecReader
MaxRowLen == 2
\* method calls recorded in SpecMajor
MaxCalls == 2
\* lines (header included) read per load phase in Spec
MaxMajorLines == 3
MaxStudentLines == 3
MaxInstructorLines == 2
MaxGradeLines == 3

\* --------------------------------------------------------------- variables
VARIABLES
    line_num,      \* file_reader: local line_num of the running generator
    header,        \* file_reader: local header flag of the running generator
    fr_pc,         \* SpecReader: "start", "open", "notfound", "raised", "exhausted"
    fr_fields,     \* SpecReader: the fields argument
    fr_header,     \* SpecReader: the header argument as passed
    fr_file,       \* SpecReader: rows of the file consumed so far
    fr_yielded,    \* SpecReader: tuples yielded so far
    m_major,       \* SpecMajor: the Major object
    m_student,     \* SpecMajor: the Student object
    m_log,         \* SpecMajor: grade records applied, in order
    m_row,         \* SpecMajor: result of Student.info() if it was the last call
    pc,            \* Spec: position in Repository.__init__
    tables,        \* Spec: the tables argument
    majors,        \* Spec: self._majors
    students,      \* Spec: self._students
    instructors,   \* Spec: self._instructors
    grade_log,     \* Spec: grade records yielded to _get_grades, in order
    err,           \* Spec: exception raised so far ("none" if none)
    errPhase,      \* Spec: position at which it was raised
    printed        \* Spec: standard output, in order

rvars == <<fr_pc, fr_fields, fr_header, fr_file, fr_yielded>>
mvars == <<m_major, m_student, m_log, m_row>>
pvars == <<pc, tables, majors, students, instructors, grade_log, err, errPhase, printed>>
gvars == <<line_num, header>>
vars == <<gvars, rvars, mvars, pvars>>

\* ----------------------------------------------------------------- helpers
EmptyMap == [x \in {} |-> 0]

Put(f, k, v) == [x \in (DOMAIN f) \cup {k} |-> IF x = k THEN v ELSE f[x]]

\* A Python dict: its keys in insertion order and the value of each key.
EmptyDict == [keys |-> <<>>, val |-> EmptyMap]

Has(d, k) == k \in DOMAIN d.val

\* d[k] = v: a new key goes last, an existing key keeps its place
DictPut(d, k, v) ==
    [keys |-> IF Has(d, k) THEN d.keys ELSE Append(d.keys, k), val |-> Put(d.val, k, v)]

Min(S) == CHOOSE x \in S : \A y \in S : x <= y

RECURSIVE sorted(_)
\* sorted(): the ascending list of a collection of course codes
sorted(S) == IF S = {} THEN <<>> ELSE <<Min(S)>> \o sorted(S \ {Min(S)})

RECURSIVE SumOver(_, _)
SumOver(f, D) ==
    IF D = {} THEN 0
    ELSE LET x == CHOOSE y \in D : TRUE IN f[x] + SumOver(f, D \ {x})

RECURSIVE SeqsUpTo(_, _)
SeqsUpTo(S, n) ==
    IF n = 0 THEN {<<>>}
    ELSE LET R == SeqsUpTo(S, n - 1)
         IN  R \cup {Append(s, x) : s \in {r \in R : Len(r) = n - 1}, x \in S}

\* ============================================================= file_reader
\* file_reader with the header skipped before its field count is checked
file_reader_step_header_unchecked(line, fields, hdr, num) ==
    LET n == num + 1 IN
    IF hdr
    THEN [kind |-> "skip", line_num |-> n, header |-> FALSE]
    ELSE IF Len(line) # fields
         THEN [kind |-> "ValueError", line_num |-> n, header |-> hdr]
         ELSE [kind |-> "yield", line_num |-> n, header |-> hdr]

\* file_reader with the header flag never cleared
file_reader_step_header_kept(line, fields, hdr, num) ==
    LET n == num + 1 IN
    IF Len(line) # fields
    THEN [kind |-> "ValueError", line_num |-> n, header |-> hdr]
    ELSE IF hdr = FALSE
         THEN [kind |-> "yield", line_num |-> n, header |-> hdr]
         ELSE [kind |-> "skip", line_num |-> n, header |-> hdr]

\* One iteration of "for line in reader": the outcome for the row just read.
file_reader_step(line, fields, hdr, num) ==
    LET n == num + 1 IN
    IF Len(line) # fields
    THEN [kind |-> "ValueError", line_num |-> n, header |-> hdr]
    ELSE IF hdr = FALSE
         THEN [kind |-> "yield", line_num |-> n, header |-> hdr]
         ELSE [kind |-> "skip", line_num |-> n, header |-> FALSE]

\* ------------------------------------------------------------- SpecReader
FieldValues == {"a", "b"}
Rows == SeqsUpTo(FieldValues, MaxRowLen)

ProgramIdle ==
    /\ pc = "idle" /\ tables = FALSE
    /\ majors = EmptyDict /\ students = EmptyDict /\ instructors = EmptyDict
    /\ grade_log = <<>> /\ err = "none" /\ errPhase = "none" /\ printed = <<>>

MajorIdle ==
    /\ m_major = [major |-> "idle", required |-> {}, electives |-> {}]
    /\ m_student = [cwid |-> "idle", name |-> "idle", major |-> "idle", courses |-> EmptyMap]
    /\ m_log = <<>> /\ m_row = [kind |-> "none"]

ReaderIdle ==
    /\ fr_pc = "idle" /\ fr_fields = 0 /\ fr_header = FALSE
    /\ fr_file = <<>> /\ fr_yielded = <<>>

ReaderInit ==
    /\ fr_pc = "start"
    /\ fr_fields \in 1..MaxRowLen
    /\ fr_header \in BOOLEAN
    /\ header = fr_header
    /\ line_num = 0
    /\ fr_file = <<>>
    /\ fr_yielded = <<>>
    /\ ProgramIdle /\ MajorIdle

\* open(path) succeeds
fr_open ==
    /\ fr_pc = "start"
    /\ fr_pc' = "open"
    /\ UNCHANGED <<fr_fields, fr_header, fr_file, fr_yielded, gvars, mvars, pvars>>

\* open(path) raises FileNotFoundError, re-raised before any record
fr_not_found ==
    /\ fr_pc = "start"
    /\ fr_pc' = "notfound"
    /\ UNCHANGED <<fr_fields, fr_header, fr_file, fr_yielded, gvars, mvars, pvars>>

\* the reader delivers the next row of the file
fr_line ==
    /\ fr_pc = "open"
    /\ Len(fr_file) < MaxFileLines
    /\ \E line \in Rows :
        LET r == file_reader_step(line, fr_fields, header, line_num) IN
        /\ fr_file' = Append(fr_file, line)
        /\ line_num' = r.line_num
        /\ header' = r.header
        /\ fr_pc' = IF r.kind = "ValueError" THEN "raised" ELSE "open"
        /\ fr_yielded' = IF r.kind = "yield" THEN Append(fr_yielded, line) ELSE fr_yielded
    /\ UNCHANGED <<fr_fields, fr_header, mvars, pvars>>

\* the reader is at end of file: the generator returns
fr_eof ==
    /\ fr_pc = "open"
    /\ fr_pc' = "exhausted"
    /\ UNCHANGED <<fr_fields, fr_header, fr_file, fr_yielded, gvars, mvars, pvars>>

ReaderNext == fr_open \/ fr_not_found \/ fr_line \/ fr_eof

SpecReader == ReaderInit /\ [][ReaderNext]_vars

\* =================================================== Major, Student, Instructor
\* Major.GRADES: the passing grades
GRADES == {"A", "A-", "B+", "B", "B-", "C+", "C"}

\* the grades table of Student.gpa, in hundredths of a grade point
grades ==
    [g \in {"A", "A-", "B+", "B", "B-", "C+", "C", "C-", "D+", "D", "D-", "F"} |->
        CASE g = "A" -> 400 [] g = "A-" -> 375 [] g = "B+" -> 325 [] g = "B" -> 300
          [] g = "B-" -> 275 [] g = "C+" -> 225 [] g = "C" -> 200 [] OTHER -> 0]

\* Major.__init__
Major(major) == [major |-> major, required |-> {}, electives |-> {}]

\* Major.add_course: the updated Major, or the ValueError raised
Major_add_course(self, course, option) ==
    IF option = "R"
    THEN [kind |-> "ok", major |-> [self EXCEPT !.required = @ \cup {course}]]
    ELSE IF option = "E"
         THEN [kind |-> "ok", major |-> [self EXCEPT !.electives = @ \cup {course}]]
         ELSE [kind |-> "ValueError", major |-> self]

\* Major.remaining giving credit for each elective passed
Major_remaining_partial(self, completed) ==
    LET passed == {course \in DOMAIN completed : completed[course] \in GRADES}
    IN  [major |-> self.major, passed |-> passed,
         remaining |-> self.required \ passed, electives |-> self.electives \ passed]

\* Major.remaining counting every recorded course as passed
Major_remaining_any_grade(self, completed) ==
    LET passed == DOMAIN completed
        electives == IF self.electives \cap passed # {} THEN {} ELSE self.electives
    IN  [major |-> self.major, passed |-> passed,
         remaining |-> self.required \ passed, electives |-> electives]

\* Major.remaining: (major, passed, remaining, electives), each list in the
\* unspecified order of the set it is built from
Major_remaining(self, completed) ==
    LET passed == {course \in DOMAIN completed : completed[course] \in GRADES}
        remaining == self.required \ passed
        electives == IF self.electives \cap passed # {} THEN {} ELSE self.electives
    IN  [major |-> self.major, passed |-> passed,
         remaining |-> remaining, electives |-> electives]

\* Major.info
Major_info(self) ==
    [major |-> self.major, required |-> sorted(self.required),
     electives |-> sorted(self.electives)]

\* Student.__init__; major is the key of the Major object the student shares
Student(cwid, name, major) ==
    [cwid |-> cwid, name |-> name, major |-> major, courses |-> EmptyMap]

\* Student.add_course: last write wins
Student_add_course(self, course, grade) ==
    [self EXCEPT !.courses = Put(@, course, grade)]

\* round(total, 2) of total = sum / n, in hundredths; a tie goes to the even
\* hundredth (exact for the course counts the model reaches)
RoundMean(sum, n) ==
    LET q == sum \div n
        r == sum % n
    IN  IF 2 * r < n THEN q
        ELSE IF 2 * r > n THEN q + 1
        ELSE IF q % 2 = 0 THEN q ELSE q + 1

\* Student.gpa returning 0.0 for a student without courses
Student_gpa_zero(self) ==
    IF \E c \in DOMAIN self.courses : self.courses[c] \notin DOMAIN grades
    THEN [kind |-> "KeyError"]
    ELSE IF DOMAIN self.courses = {}
         THEN [kind |-> "float", hundredths |-> 0]
         ELSE [kind |-> "float",
               hundredths |-> RoundMean(
                   SumOver([c \in DOMAIN self.courses |-> grades[self.courses[c]]],
                           DOMAIN self.courses),
                   Cardinality(DOMAIN self.courses))]

\* Student.gpa: the rounded mean, None after the caught ZeroDivisionError,
\* or the KeyError that grades[grade] raises for a grade outside the table
Student_gpa(self) ==
    IF \E c \in DOMAIN self.courses : self.courses[c] \notin DOMAIN grades
    THEN [kind |-> "KeyError"]
    ELSE IF DOMAIN self.courses = {}
         THEN [kind |-> "None"]
         ELSE [kind |-> "float",
               hundredths |-> RoundMean(
                   SumOver([c \in DOMAIN self.courses |-> grades[self.courses[c]]],
                           DOMAIN self.courses),
                   Cardinality(DOMAIN self.courses))]

\* Student.info: the report row, or the exception gpa() lets through
Student_info(self, major) ==
    LET rem == Major_remaining(major, self.courses)
        gpa == Student_gpa(self)
    IN  IF gpa.kind = "KeyError"
        THEN [kind |-> "KeyError"]
        ELSE [kind |-> "row", cwid |-> self.cwid, name |-> self.name,
              major |-> rem.major, passed |-> sorted(rem.passed),
              remaining |-> sorted(rem.remaining),
              electives |-> sorted(rem.electives), gpa |-> gpa]

\* Instructor.__init__
Instructor(cwid, name, dept) ==
    [cwid |-> cwid, name |-> name, dept |-> dept, courses |-> EmptyDict]

\* Instructor.add_student assigning 1 instead of incrementing
Instructor_add_student_assign(self, course) ==
    [self EXCEPT !.courses = DictPut(@, course, 1)]

\* Instructor.add_student: defaultdict(int) counter += 1
Instructor_add_student(self, course) ==
    [self EXCEPT !.courses =
        DictPut(@, course, (IF Has(@, course) THEN @.val[course] ELSE 0) + 1)]

\* Instructor.info: one row per course, in order of first encounter
Instructor_info(self) ==
    [i \in 1..Len(self.courses.keys) |->
        <<self.cwid, self.name, self.dept, self.courses.keys[i],
          self.courses.val[self.courses.keys[i]]>>]

\* --------------------------------------------------------------- SpecMajor
Courses == {1, 2, 3}
Flags == {"R", "E", "X"}
GradeInputs == {"A", "C", "C-", "Z"}

MajorInit ==
    /\ m_major = Major("SFEN")
    /\ m_student = Student("10103", "Jobs, S", "SFEN")
    /\ m_log = <<>>
    /\ m_row = [kind |-> "none"]
    /\ line_num = 0 /\ header = FALSE
    /\ ReaderIdle /\ ProgramIdle

\* a call of Major.add_course; a ValueError leaves the object as it was
m_major_add_course ==
    /\ \E course \in Courses, option \in Flags :
        m_major' = Major_add_course(m_major, course, option).major
    /\ m_row' = [kind |-> "none"]
    /\ UNCHANGED <<m_student, m_log, gvars, rvars, pvars>>

\* a grade record applied to the student
m_student_add_course ==
    /\ Len(m_log) < MaxCalls
    /\ \E course \in Courses, grade \in GradeInputs :
        /\ m_student' = Student_add_course(m_student, course, grade)
        /\ m_log' = Append(m_log, <<course, grade>>)
    /\ m_row' = [kind |-> "none"]
    /\ UNCHANGED <<m_major, gvars, rvars, pvars>>

\* a call of Student.info; m_row holds its result until the next call
m_student_info ==
    /\ m_row' = Student_info(m_student, m_major)
    /\ UNCHANGED <<m_major, m_student, m_log, gvars, rvars, pvars>>

MajorNext == m_major_add_course \/ m_student_add_course \/ m_student_info

SpecMajor == MajorInit /\ [][MajorNext]_vars

\* ============================================================== Repository
\* rows csv.reader can deliver from each data file; the last of each set has
\* the wrong number of fields
MajorLines ==
    {<<"SFEN", "R", 1>>, <<"SFEN", "E", 2>>, <<"SYEN", "R", 2>>, <<"SFEN", "X", 1>>,
     <<"SFEN", "R">>}
StudentLines ==
    {<<"10103", "Jobs, S", "SFEN">>, <<"10115", "Bezos, J", "SYEN">>,
     <<"10115", "Bezos, J", "SFEN">>, <<"10103", "Jobs, S">>}
InstructorLines ==
    {<<"98764", "Cohen, R", "SFEN">>, <<"98763", "Rowland, J", "SFEN">>, <<"98764">>}
GradeLines ==
    {<<"10103", 1, "A", "98764">>, <<"10103", 2, "C-", "98763">>,
     <<"10103", 1, "Z", "98764">>, <<"10115", 2, "A", "98764">>,
     <<"10115", 1, "C", "98763">>, <<"10103", 2, "B+", "98764">>,
     <<"10103", 1, "A">>}

LoadPhases == {"majors", "students", "instructors", "grades"}

\* Repository.__init__ with the load error swallowed and the run carrying on
NextPhase_swallow(phase, outcome, tbl) ==
    CASE phase = "majors" -> "students"
      [] phase = "students" -> "instructors"
      [] phase = "instructors" -> "grades"
      [] phase = "grades" -> IF tbl THEN "majors_table" ELSE "done"
      [] phase = "majors_table" -> "student_table"
      [] phase = "student_table" -> "instructor_table"
      [] phase = "instructor_table" -> "instructor_table_db"
      [] OTHER -> "done"

\* Repository.__init__: where control goes when a step of the load or of the
\* reporting finishes normally ("ok") or raises FileNotFoundError / ValueError
\* inside the try block ("error")
NextPhase(phase, outcome, tbl) ==
    IF outcome = "error" THEN "caught"
    ELSE CASE phase = "majors" -> "students"
           [] phase = "students" -> "instructors"
           [] phase = "instructors" -> "grades"
           [] phase = "grades" -> IF tbl THEN "majors_table" ELSE "done"
           [] phase = "majors_table" -> "student_table"
           [] phase = "student_table" -> "instructor_table"
           [] phase = "instructor_table" -> "instructor_table_db"
           [] OTHER -> "done"

\* body of the loop of _get_majors for one record
get_majors(mjs, rec) ==
    LET major == rec[1]
        flag == rec[2]
        course == rec[3]
        m1 == IF ~Has(mjs, major) THEN DictPut(mjs, major, Major(major)) ELSE mjs
        r == Major_add_course(m1.val[major], course, flag)
    IN  [kind |-> r.kind, majors |-> DictPut(m1, major, r.major)]

\* _get_students without the major lookup
get_students_unchecked(mjs, sts, rec) ==
    [students |-> DictPut(sts, rec[1], Student(rec[1], rec[2], rec[3])), out |-> <<>>]

\* body of the loop of _get_students for one record
get_students(mjs, sts, rec) ==
    LET cwid == rec[1]
        name == rec[2]
        major == rec[3]
    IN  IF ~Has(mjs, major)
        THEN [students |-> sts, out |-> <<[kind |-> "diag", text |-> "unknown major"]>>]
        ELSE [students |-> DictPut(sts, cwid, Student(cwid, name, major)), out |-> <<>>]

\* body of the loop of _get_instructors for one record
get_instructors(ins, rec) == DictPut(ins, rec[1], Instructor(rec[1], rec[2], rec[3]))

\* _get_grades skipping the whole record when the instructor is unknown
get_grades_skip(sts, ins, rec) ==
    IF ~Has(ins, rec[4])
    THEN [students |-> sts, instructors |-> ins,
          out |-> <<[kind |-> "diag", text |-> "unknown instructor"]>>]
    ELSE [students |-> IF Has(sts, rec[1])
                       THEN DictPut(sts, rec[1],
                                Student_add_course(sts.val[rec[1]], rec[2], rec[3]))
                       ELSE sts,
          instructors |-> DictPut(ins, rec[4], Instructor_add_student(ins.val[rec[4]], rec[2])),
          out |-> IF Has(sts, rec[1]) THEN <<>>
                  ELSE <<[kind |-> "diag", text |-> "unknown student"]>>]

\* body of the loop of _get_grades for one record
get_grades(sts, ins, rec) ==
    LET std_cwid == rec[1]
        course == rec[2]
        grade == rec[3]
        instructor_cwid == rec[4]
        s == IF Has(sts, std_cwid)
             THEN [students |-> DictPut(sts, std_cwid,
                                 Student_add_course(sts.val[std_cwid], course, grade)),
                   out |-> <<>>]
             ELSE [students |-> sts,
                   out |-> <<[kind |-> "diag", text |-> "unknown student"]>>]
        i == IF Has(ins, instructor_cwid)
             THEN [instructors |-> DictPut(ins, instructor_cwid,
                                 Instructor_add_student(ins.val[instructor_cwid], course)),
                   out |-> <<>>]
             ELSE [instructors |-> ins,
                   out |-> <<[kind |-> "diag", text |-> "unknown instructor"]>>]
    IN  [students |-> s.students, instructors |-> i.instructors, out |-> s.out \o i.out]

Init ==
    /\ pc = "majors"
    /\ tables \in BOOLEAN
    /\ majors = EmptyDict /\ students = EmptyDict /\ instructors = EmptyDict
    /\ grade_log = <<>>
    /\ err = "none" /\ errPhase = "none"
    /\ printed = <<>>
    /\ line_num = 0 /\ header = TRUE
    /\ ReaderIdle /\ MajorIdle

\* "except (FileNotFoundError, ValueError) as e: print(e)"
Caught(e) ==
    /\ err' = e
    /\ errPhase' = pc
    /\ printed' = Append(printed, [kind |-> "error", text |-> e])
    /\ pc' = NextPhase(pc, "error", tables)
    /\ line_num' = 0 /\ header' = TRUE

\* the file of the running phase cannot be opened
open_fails ==
    /\ pc \in LoadPhases
    /\ line_num = 0
    /\ Caught("FileNotFoundError")
    /\ UNCHANGED <<tables, majors, students, instructors, grade_log, rvars, mvars>>

\* the generator of the running phase is exhausted: the phase returns
end_of_file ==
    /\ pc \in LoadPhases
    /\ pc' = NextPhase(pc, "ok", tables)
    /\ line_num' = 0 /\ header' = TRUE
    /\ UNCHANGED <<tables, majors, students, instructors, grade_log, err, errPhase,
                   printed, rvars, mvars>>

\* one row of majors.txt through file_reader and the loop of _get_majors
majors_line ==
    /\ pc = "majors"
    /\ line_num < MaxMajorLines
    /\ \E line \in MajorLines :
        LET r == file_reader_step(line, 3, header, line_num) IN
        IF r.kind = "ValueError"
        THEN Caught("ValueError") /\ UNCHANGED majors
        ELSE IF r.kind = "skip"
        THEN /\ line_num' = r.line_num /\ header' = r.header
             /\ UNCHANGED <<pc, majors, err, errPhase, printed>>
        ELSE LET b == get_majors(majors, line) IN
             /\ majors' = b.majors
             /\ IF b.kind = "ValueError"
                THEN Caught("ValueError")
                ELSE /\ line_num' = r.line_num /\ header' = r.header
                     /\ UNCHANGED <<pc, err, errPhase, printed>>
    /\ UNCHANGED <<tables, students, instructors, grade_log, rvars, mvars>>

\* one row of students.txt through file_reader and the loop of _get_students
students_line ==
    /\ pc = "students"
    /\ line_num < MaxStudentLines
    /\ \E line \in StudentLines :
        LET r == file_reader_step(line, 3, header, line_num) IN
        IF r.kind = "ValueError"
        THEN Caught("ValueError") /\ UNCHANGED students
        ELSE /\ line_num' = r.line_num /\ header' = r.header
             /\ UNCHANGED <<pc, err, errPhase>>
             /\ IF r.kind = "skip"
                THEN UNCHANGED <<students, printed>>
                ELSE LET b == get_students(majors, students, line) IN
                     /\ students' = b.students
                     /\ printed' = printed \o b.out
    /\ UNCHANGED <<tables, majors, instructors, grade_log, rvars, mvars>>

\* one row of instructors.txt through file_reader and the loop of _get_instructors
instructors_line ==
    /\ pc = "instructors"
    /\ line_num < MaxInstructorLines
    /\ \E line \in InstructorLines :
        LET r == file_reader_step(line, 3, header, line_num) IN
        IF r.kind = "ValueError"
        THEN Caught("ValueError") /\ UNCHANGED instructors
        ELSE /\ line_num' = r.line_num /\ header' = r.header
             /\ UNCHANGED <<pc, err, errPhase, printed>>
             /\ instructors' = IF r.kind = "skip" THEN instructors
                               ELSE get_instructors(instructors, line)
    /\ UNCHANGED <<tables, majors, students, grade_log, rvars, mvars>>

\* one row of grades.txt through file_reader and the loop of _get_grades
grades_line ==
    /\ pc = "grades"
    /\ line_num < MaxGradeLines
    /\ \E line \in GradeLines :
        LET r == file_reader_step(line, 4, header, line_num) IN
        IF r.kind = "ValueError"
        THEN Caught("ValueError") /\ UNCHANGED <<students, instructors, grade_log>>
        ELSE /\ line_num' = r.line_num /\ header' = r.header
             /\ UNCHANGED <<pc, err, errPhase>>
             /\ IF r.kind = "skip"
                THEN UNCHANGED <<students, instructors, grade_log, printed>>
                ELSE LET b == get_grades(students, instructors, line) IN
                     /\ students' = b.students
                     /\ instructors' = b.instructors
                     /\ grade_log' = Append(grade_log, line)
                     /\ printed' = printed \o b.out
    /\ UNCHANGED <<tables, majors, rvars, mvars>>

\* Student.info of the i-th student of self._students
InfoAt(i) ==
    LET self == students.val[students.keys[i]]
    IN  Student_info(self, majors.val[self.major])

\* index of the first student whose info() raises, 0 if none does
FirstRaise ==
    LET bad == {i \in 1..Len(students.keys) : InfoAt(i).kind = "KeyError"}
    IN  IF bad = {} THEN 0 ELSE Min(bad)

RECURSIVE GpaOutput(_)
\* what the gpa() calls of the first n students print: the message of each
\* ZeroDivisionError caught
GpaOutput(n) ==
    IF n = 0 THEN <<>>
    ELSE GpaOutput(n - 1) \o
         (IF InfoAt(n).gpa.kind = "None"
          THEN <<[kind |-> "diag", text |-> "division by zero"]>> ELSE <<>>)

RECURSIVE Flatten(_)
Flatten(ss) == IF ss = <<>> THEN <<>> ELSE Head(ss) \o Flatten(Tail(ss))

\* an exception leaves __init__ from the else block, where nothing catches it
Uncaught(e, out) ==
    /\ err' = e
    /\ errPhase' = pc
    /\ printed' = printed \o out
    /\ pc' = "crashed"

\* print("\nMajors Table"); self.majors_table()
majors_table ==
    /\ pc = "majors_table"
    /\ printed' = printed \o
         <<[kind |-> "title", name |-> "Majors Table"],
           [kind |-> "table", name |-> "Majors Table",
            rows |-> [i \in 1..Len(majors.keys) |-> Major_info(majors.val[majors.keys[i]])]]>>
    /\ pc' = NextPhase(pc, "ok", tables)
    /\ UNCHANGED <<tables, majors, students, instructors, grade_log, err, errPhase,
                   gvars, rvars, mvars>>

\* print("\nStudent Table "); self.student_table()
student_table ==
    /\ pc = "student_table"
    /\ LET title == <<[kind |-> "title", name |-> "Student Table"]>> IN
       IF FirstRaise # 0
       THEN Uncaught("KeyError", title \o GpaOutput(FirstRaise - 1))
       ELSE /\ printed' = printed \o title \o GpaOutput(Len(students.keys)) \o
                 <<[kind |-> "table", name |-> "Student Table",
                    rows |-> [i \in 1..Len(students.keys) |-> InfoAt(i)]]>>
            /\ pc' = NextPhase(pc, "ok", tables)
            /\ UNCHANGED <<err, errPhase>>
    /\ UNCHANGED <<tables, majors, students, instructors, grade_log, gvars, rvars, mvars>>

\* print("\nInstructor Table "); self.instructor_table()
instructor_table ==
    /\ pc = "instructor_table"
    /\ printed' = printed \o
         <<[kind |-> "title", name |-> "Instructor Table"],
           [kind |-> "table", name |-> "Instructor Table",
            rows |-> Flatten([i \in 1..Len(instructors.keys) |->
                         Instructor_info(instructors.val[instructors.keys[i]])])]>>
    /\ pc' = NextPhase(pc, "ok", tables)
    /\ UNCHANGED <<tables, majors, students, instructors, grade_log, err, errPhase,
                   gvars, rvars, mvars>>

\* print('\nStudent Grade Summary'); self.instructor_table_db(): the rows come
\* from the database file, which the program does not control; connecting to
\* it or querying it may raise an sqlite3 error, which nothing catches
instructor_table_db ==
    /\ pc = "instructor_table_db"
    /\ LET title == <<[kind |-> "title", name |-> "Student Grade Summary"]>> IN
       \/ /\ printed' = printed \o title \o
                 <<[kind |-> "table", name |-> "Student Grade Summary", rows |-> "db"]>>
          /\ pc' = NextPhase(pc, "ok", tables)
          /\ UNCHANGED <<err, errPhase>>
       \/ Uncaught("sqlite3.Error", title)
    /\ UNCHANGED <<tables, majors, students, instructors, grade_log, gvars, rvars, mvars>>

Next ==
    \/ open_fails
    \/ end_of_file
    \/ majors_line
    \/ students_line
    \/ instructors_line
    \/ grades_line
    \/ majors_table
    \/ student_table
    \/ instructor_table
    \/ instructor_table_db

Spec == Init /\ [][Next]_vars

\* ================================================================== claims
\* ---- vocabulary of the claims
IsTable(e) == e.kind \in {"title", "table"}

Count(seq, P(_)) == Cardinality({k \in 1..Len(seq) : P(seq[k])})

IsError(e) == e.kind = "error"

IsUnknownMajor(e) == e.kind = "diag" /\ e.text = "unknown major"

TableNamed(e, n) == e.kind = "table" /\ e.name = n

\* header lines file_reader was asked to skip
H == IF fr_header THEN 1 ELSE 0

\* 1-based number of the first line read whose field count is not fr_fields
FirstMismatch ==
    LET bad == {i \in 1..Len(fr_file) : Len(fr_file[i]) # fr_fields}
    IN  IF bad = {} THEN 0 ELSE Min(bad)

\* the lines from the m-th on, up to and including the n-th
Lines(m, n) == [i \in 1..(IF n < m THEN 0 ELSE n - m + 1) |-> fr_file[m + i - 1]]

PassingGrades == {"A", "A-", "B+", "B", "B-", "C+", "C"}

\* courses whose most recent record in the log carries a passing grade
PassedInLog(log) ==
    {c \in {log[k][1] : k \in 1..Len(log)} :
        LET last == CHOOSE k \in 1..Len(log) :
                        /\ log[k][1] = c
                        /\ \A j \in (k + 1)..Len(log) : log[j][1] # c
        IN  log[last][2] \in PassingGrades}

Ascending(seq) == \A i, j \in 1..Len(seq) : i < j => seq[i] < seq[j]

Elements(seq) == {seq[i] : i \in 1..Len(seq)}

\* sum of the per-course counters of one instructor
Enrollment(ins) == SumOver(ins.courses.val, DOMAIN ins.courses.val)

StudentTablePrinted == \E k \in 1..Len(printed) : TableNamed(printed[k], "Student Table")

StudentTableRows ==
    LET k == CHOOSE k \in 1..Len(printed) : TableNamed(printed[k], "Student Table")
    IN  printed[k].rows

\* ---- C1
\* C1: once a load phase has raised FileNotFoundError or ValueError, the error
\* has been caught and printed exactly once, control rests after the except
\* clause (no later phase runs) and neither a table nor a table title has been
\* printed; tables printed before a load error do not exist either.
C1_NoReportAfterLoadError ==
    (errPhase \in LoadPhases) =>
        /\ pc = "caught"
        /\ err \in {"FileNotFoundError", "ValueError"}
        /\ Count(printed, IsError) = 1
        /\ Count(printed, IsTable) = 0
        /\ line_num = 0

\* C1 witness: the majors phase committed a Major and then failed on a flag
C1_Witness ==
    /\ pc = "caught" /\ errPhase = "majors" /\ err = "ValueError"
    /\ Has(majors, "SFEN") /\ majors.val["SFEN"].required = {1}
    /\ tables

\* ---- C2
\* C2: as soon as a line with a wrong field count has been read, file_reader
\* has raised ValueError on exactly that line, line_num is its 1-based number
\* (header counted), the records yielded are exactly the lines before it other
\* than the header, and nothing is yielded from then on; it raises for no
\* other reason.
C2_RaisesAtFirstMismatch ==
    /\ FirstMismatch # 0 =>
        /\ fr_pc = "raised"
        /\ line_num = FirstMismatch
        /\ Len(fr_file) = FirstMismatch
        /\ fr_yielded = Lines(H + 1, FirstMismatch - 1)
    /\ fr_pc = "raised" => FirstMismatch # 0

\* C2 witness: header and one record read, the third line is malformed
C2_Witness ==
    /\ fr_pc = "raised" /\ fr_header /\ line_num = 3
    /\ Len(fr_yielded) = 1 /\ fr_yielded[1] = fr_file[2]

\* ---- C3
\* C3 as stated: an exhausted run over L lines has yielded L - H records.
C3_Original ==
    fr_pc = "exhausted" => Len(fr_yielded) = Len(fr_file) - H

\* C3 amended: while every line read has the expected field count the run
\* has not raised and has yielded, in file order, exactly the lines after the
\* first H; at exhaustion that is L - H records when the file has at least H
\* lines and none when the file is empty.
C3_YieldsAllButHeader ==
    (fr_pc \in {"open", "raised", "exhausted"} /\ FirstMismatch = 0) =>
        /\ fr_pc # "raised"
        /\ fr_yielded = Lines(H + 1, Len(fr_file))
        /\ Len(fr_file) >= H => Len(fr_yielded) = Len(fr_file) - H
        /\ Len(fr_file) = 0 => fr_yielded = <<>>
        /\ fr_header /\ Len(fr_file) > 0 => header = FALSE

\* C3 witness: a three-line file with a header, read to the end
C3_Witness ==
    /\ fr_pc = "exhausted" /\ fr_header /\ Len(fr_file) = 3
    /\ fr_yielded = <<fr_file[2], fr_file[3]>>
    /\ fr_file[1] # fr_file[2]

\* ---- C4
\* C4 as stated: an instructor's counters sum to the number of grade records
\* naming that instructor and a student present in the student map.
C4_Original ==
    \A i \in DOMAIN instructors.val :
        Enrollment(instructors.val[i]) =
            Cardinality({k \in 1..Len(grade_log) :
                /\ grade_log[k][4] = i
                /\ Has(students, grade_log[k][1])})

\* C4 amended: an instructor's counters sum to the number of grade records
\* naming that instructor, whether or not the record's student is known.
C4_CountsEveryRecordOfInstructor ==
    \A i \in DOMAIN instructors.val :
        Enrollment(instructors.val[i]) =
            Cardinality({k \in 1..Len(grade_log) : grade_log[k][4] = i})

\* C4 witness: the grades phase is over and an instructor has two enrollments,
\* one of them from a record whose student is unknown
C4_Witness ==
    /\ pc = "majors_table"
    /\ \E i \in DOMAIN instructors.val :
        /\ Enrollment(instructors.val[i]) = 2
        /\ \E k \in 1..Len(grade_log) :
            grade_log[k][4] = i /\ ~Has(students, grade_log[k][1])
        /\ \E k \in 1..Len(grade_log) :
            grade_log[k][4] = i /\ Has(students, grade_log[k][1])

\* ---- C5
\* C5: a step of the grades phase that takes a record with a known student and
\* an unknown instructor stores the record's grade under its course for that
\* student, leaves every instructor as it was, raises nothing and stays in the
\* phase; a record with an unknown student and a known instructor leaves every
\* student as it was, counts one more enrollment for the instructor, raises
\* nothing and stays in the phase.
C5_HalvesIndependent ==
    [][(pc = "grades" /\ grade_log' # grade_log) =>
        LET rec == grade_log'[Len(grade_log')] IN
        /\ (Has(students, rec[1]) /\ ~Has(instructors, rec[4])) =>
              /\ students'.val[rec[1]].courses =
                    Put(students.val[rec[1]].courses, rec[2], rec[3])
              /\ instructors' = instructors
              /\ pc' = "grades" /\ err' = "none"
        /\ (~Has(students, rec[1]) /\ Has(instructors, rec[4])) =>
              /\ students' = students
              /\ Enrollment(instructors'.val[rec[4]]) =
                    Enrollment(instructors.val[rec[4]]) + 1
              /\ pc' = "grades" /\ err' = "none"
    ]_vars

\* C5 witness: a record with a known student and an unknown instructor was
\* applied, and the phase went on to a further record
C5_Witness ==
    /\ pc = "grades" /\ Len(grade_log) = 2
    /\ Has(students, grade_log[1][1]) /\ ~Has(instructors, grade_log[1][4])
    /\ students.val[grade_log[1][1]].courses[grade_log[1][2]] = grade_log[1][3]
    /\ grade_log[2][2] # grade_log[1][2]

\* ---- C6
\* C6: when a student holds a grade outside the grade-point table and the run
\* has reached the student report, the run has not been ended by the lookup of
\* that grade and the student table has been printed.
C6_UnknownGradeReported ==
    (/\ \E c \in DOMAIN students.val : Student_gpa(students.val[c]).kind = "KeyError"
     /\ pc \notin LoadPhases \cup {"caught", "majors_table", "student_table"}) =>
        /\ err # "KeyError"
        /\ pc # "crashed"
        /\ StudentTablePrinted

\* ---- C7
\* C7: every Student in the student map references a Major present in the
\* majors map; and a step of the students phase that reports an unknown major
\* adds no student, raises nothing and stays in the phase.
C7_StudentsHaveKnownMajor ==
    /\ [](\A c \in DOMAIN students.val : Has(majors, students.val[c].major))
    /\ [][(pc = "students" /\
           Count(printed', IsUnknownMajor) > Count(printed, IsUnknownMajor)) =>
              /\ students' = students
              /\ pc' = "students" /\ err' = "none"
              /\ line_num' = line_num + 1]_vars

\* C7 witness: one record was dropped for its unknown major, another admitted
C7_Witness ==
    /\ pc = "students" /\ line_num = 3
    /\ Count(printed, IsUnknownMajor) = 1
    /\ students.keys = <<"10103">>
    /\ ~Has(majors, "SYEN")

\* ---- C8
\* C8: the electives owed, as Major.remaining returns them and as the student
\* row renders them, are none when some elective has a passing grade and the
\* full elective set otherwise, whatever the required courses.
C8_ElectivesAllOrNothing ==
    LET owed == IF m_major.electives \cap PassedInLog(m_log) # {}
                THEN {} ELSE m_major.electives
    IN  /\ Major_remaining(m_major, m_student.courses).electives = owed
        /\ m_row.kind = "row" => m_row.electives = sorted(owed)

\* C8 witness: one of two electives passed, a required course still open
C8_Witness ==
    /\ m_row.kind = "row"
    /\ m_row.electives = <<>>
    /\ Cardinality(m_major.electives) = 2
    /\ Cardinality(m_major.electives \cap PassedInLog(m_log)) = 1
    /\ m_row.remaining # <<>>

\* ---- C9
\* C9: the remaining required courses are the required set minus the courses
\* whose recorded grade passes, a function of the course map alone (of each
\* course's latest record, not of the order the records came in), and the
\* student row lists them in ascending order without repetition.
C9_RemainingRequired ==
    LET open == m_major.required \ PassedInLog(m_log)
    IN  /\ Major_remaining(m_major, m_student.courses).remaining = open
        /\ m_row.kind = "row" =>
              /\ Elements(m_row.remaining) = open
              /\ Ascending(m_row.remaining)

\* C9 witness: a required course passed and then failed stays open, and the
\* row lists two open courses
C9_Witness ==
    /\ m_row.kind = "row"
    /\ Len(m_row.remaining) = 2
    /\ Len(m_log) = 2
    /\ m_log[1][1] = m_log[2][1]
    /\ m_log[1][2] = "A" /\ m_log[2][2] = "C-"
    /\ m_log[1][1] \in Elements(m_row.remaining)

\* ---- C10
\* C10: for a student without recorded courses gpa() returns None, not a
\* number, info() returns a row, and a printed student table shows the row
\* with None as its GPA.
C10_NoGpaSentinel ==
    \A i \in 1..Len(students.keys) :
        students.val[students.keys[i]].courses = EmptyMap =>
            /\ Student_gpa(students.val[students.keys[i]]) = [kind |-> "None"]
            /\ InfoAt(i).kind = "row"
            /\ StudentTablePrinted =>
                  /\ StudentTableRows[i].cwid = students.keys[i]
                  /\ StudentTableRows[i].gpa.kind = "None"
                  /\ StudentTableRows[i].passed = <<>>

\* C10 witness: the student table was printed with a row for a student
\* without courses next to a student with a grade
C10_Witness ==
    /\ StudentTablePrinted
    /\ \E i, j \in 1..Len(students.keys) :
        /\ students.val[students.keys[i]].courses = EmptyMap
        /\ StudentTableRows[j].gpa.kind = "float"

=============================================================================
